---- MODULE Spec2Model ----
(***************************************************************************)
(* Model of analyze_pay_equity (src/Testing.py, lines 19-93).              *)
(*                                                                         *)
(* A data frame is a sequence of rows; every row carries its index label   *)
(* in the field `index'.  Compensation cells are records: a numeric cell   *)
(* is [num |-> TRUE, val |-> v], and NaN is [num |-> FALSE, val |-> 0].    *)
(* Every comparison and arithmetic step on cells goes through Gt, Le, Add  *)
(* and Sub, which follow IEEE/numpy NaN semantics (a comparison with NaN   *)
(* is false, arithmetic with NaN is NaN).  Compensation values and         *)
(* thresholds are integers, so float rounding is not modelled.  Gender and *)
(* Ethnicity cells are never null in the rosters considered.               *)
(***************************************************************************)
EXTENDS Integers, Sequences, FiniteSets, TLC

(* ------------------------------ bounds -------------------------------- *)
MaxRows == 3

NULL == "<null>"
JobCodes == {"J1"}
DeptCodes == {"D1", NULL}
Genders == {"M", "F"}
Ethnicities == {"X", "Y"}
Thresholds == {0, 10}

NaN == [num |-> FALSE, val |-> 0]
Num(v) == [num |-> TRUE, val |-> v]

\* Raw spreadsheet cells of the compensation column: numbers, or a text that
\* is not a number.
RawCells == {[isnum |-> TRUE, val |-> 0, txt |-> ""],
             [isnum |-> TRUE, val |-> 10, txt |-> ""],
             [isnum |-> TRUE, val |-> 100, txt |-> ""],
             [isnum |-> FALSE, val |-> 0, txt |-> "n/a"]}

EmployeeNumber(i) == 100 + i

VARIABLES df, threshold, pc, grouped, group_data, n, results, final_df

vars == <<df, threshold, pc, grouped, group_data, n, results, final_df>>

(* --------------------------- numeric cells ---------------------------- *)
\* pd.to_numeric(..., errors="coerce") on one cell
ToNumeric(cell) == IF cell.isnum THEN Num(cell.val) ELSE NaN

Gt(a, b) == a.num /\ b.num /\ a.val > b.val
Le(a, b) == a.num /\ b.num /\ a.val <= b.val
Add(a, t) == IF a.num THEN Num(a.val + t) ELSE NaN
Sub(a, b) == IF a.num /\ b.num THEN Num(a.val - b.val) ELSE NaN

(* ------------------------------ frames -------------------------------- *)
Range(s) == {s[i] : i \in DOMAIN s}

Perms(k) == {p \in [1..k -> 1..k] : \A i, j \in 1..k : i # j => p[i] # p[j]}

Reorder(frame, p) == [i \in 1..Len(frame) |-> frame[p[i]]]

\* frame.reset_index(drop=True): the old labels are discarded
ResetIndex(frame) == [i \in 1..Len(frame) |-> [frame[i] EXCEPT !.index = i - 1]]

\* frame.sort_values(by=compensation_column, ascending=False) with the
\* default kind="quicksort": descending, NaN rows last in their original
\* order, and no guarantee on the order of rows with equal compensation.
SortValues(frame) ==
  {Reorder(frame, p) : p \in
     {q \in Perms(Len(frame)) :
        \A i, j \in 1..Len(frame) : i < j =>
           /\ ~Gt(frame[q[j]].comp, frame[q[i]].comp)
           /\ (~frame[q[i]].comp.num => ~frame[q[j]].comp.num)
           /\ (~frame[q[i]].comp.num => q[i] < q[j])}}

\* The group keys in the order groupby iterates them: sorted, null last
KeyOrder == <<<<"J1", "D1">>, <<"J1", NULL>>>>

HasKey(row, key) == row.job = key[1] /\ row.dept = key[2]

RECURSIVE GroupsFrom(_, _)
GroupsFrom(frame, k) ==
  IF k > Len(KeyOrder) THEN <<>>
  ELSE LET g == SelectSeq(frame, LAMBDA r : HasKey(r, KeyOrder[k]))
       IN (IF g = <<>> THEN <<>> ELSE <<g>>) \o GroupsFrom(frame, k + 1)

\* Variant of GroupBy: groupby with the default dropna=True, which leaves out
\* the rows with a null key
GroupByDropNa(frame) ==
  GroupsFrom(SelectSeq(frame, LAMBDA r : r.job # NULL /\ r.dept # NULL), 1)

\* df.groupby(["Job Code", "Department Code"], dropna=False): one frame per
\* key present, rows in their input order, keys sorted with null last.
GroupBy(frame) == GroupsFrom(frame, 1)

RECURSIVE Concat(_)
Concat(frames) == IF frames = <<>> THEN <<>> ELSE Head(frames) \o Concat(Tail(frames))

IsMonotonic(frame) == \A i, j \in 1..Len(frame) : i < j => frame[i].index <= frame[j].index

\* frame.sort_index(): unchanged when the labels are already ascending,
\* otherwise ascending by label with the default (unstable) sort.
SortIndex(frame) ==
  IF IsMonotonic(frame) THEN {frame}
  ELSE {Reorder(frame, p) : p \in
          {q \in Perms(Len(frame)) :
             \A i, j \in 1..Len(frame) : i < j => frame[q[i]].index <= frame[q[j]].index}}

(* ------------------------------- Init --------------------------------- *)
\* The cells of one input row, without its position
Cells == [job : JobCodes, dept : DeptCodes, comp : RawCells,
          gender : Genders, eth : Ethnicities]

\* Row i of the input: RangeIndex label i - 1, a unique employee number
InputRow(i, c) ==
  [index |-> i - 1, emp |-> EmployeeNumber(i), job |-> c.job, dept |-> c.dept,
   comp |-> c.comp, gender |-> c.gender, eth |-> c.eth]

Init ==
  /\ \E k \in 0..MaxRows : \E f \in [1..k -> Cells] :
        df = [i \in 1..k |-> InputRow(i, f[i])]
  /\ threshold \in Thresholds
  /\ pc = "start"
  /\ grouped = <<>>
  /\ group_data = <<>>
  /\ n = 0
  /\ results = <<>>
  /\ final_df = <<>>

(* ------------------------- per-subject analysis ----------------------- *)
Iloc(frame, k) == frame[k + 1]

\* line 47: gap of the subject to the first row of the ranked group
CompDiff(frame, cur) == Sub(Iloc(frame, 0).comp, cur.comp)

\* line 50: comp_diff <= threshold
WithinThreshold(frame, cur, t) == Le(CompDiff(frame, cur), Num(t))

\* Variant of SetB: >= in place of >
SetBInclusive(frame, cur, t) ==
  SelectSeq(frame, LAMBDA r : r.comp.num /\ cur.comp.num /\ r.comp.val >= cur.comp.val + t)

\* lines 54-55
SetB(frame, cur, t) == SelectSeq(frame, LAMBDA r : Gt(r.comp, Add(cur.comp, t)))
SetC(frame, cur, t) == SelectSeq(frame, LAMBDA r : Le(r.comp, Add(cur.comp, t)))

GenderColumn(frame) == [i \in 1..Len(frame) |-> frame[i].gender]
EthnicityColumn(frame) == [i \in 1..Len(frame) |-> frame[i].eth]

\* Series.unique(): distinct values in order of first appearance
RECURSIVE Unique(_)
Unique(col) ==
  IF col = <<>> THEN <<>>
  ELSE LET rest == Unique(SubSeq(col, 1, Len(col) - 1))
           last == col[Len(col)]
       IN IF last \in Range(rest) THEN rest ELSE Append(rest, last)

\* x in array
In(x, arr) == \E i \in DOMAIN arr : arr[i] = x

GenderText(e) ==
  "Pay Disparity detected with respect to Gender. Employee Number: " \o ToString(e)
EthnicityText(e) ==
  "Pay Disparity detected with respect to Ethnicity. Employee Number: " \o ToString(e)
MissingEthnicityText(eth, e) ==
  "Pay Disparity detected with respect to Ethnicity " \o eth
     \o ". Employee Number: " \o ToString(e)

NoFlag == [raise |-> FALSE, flag |-> FALSE, reason |-> ""]
Flag(text) == [raise |-> FALSE, flag |-> TRUE, reason |-> text]
IndexError == [raise |-> TRUE, flag |-> TRUE, reason |-> ""]

\* Variant of GenderBias: the genders of set_C are not looked at
GenderBiasAboveOnly(cur, B, C) ==
  IF ~In(cur.gender, Unique(GenderColumn(B)))
  THEN IF B = <<>> THEN IndexError ELSE Flag(GenderText(Iloc(B, 0).emp))
  ELSE NoFlag

\* Variant of GenderBias: no finding once a row of set_C carries one
GenderBiasUnflaggedPeers(cur, B, C) ==
  IF /\ ~In(cur.gender, Unique(GenderColumn(B)))
     /\ \A i \in DOMAIN C : C[i].gender = cur.gender /\ C[i].pe = ""
  THEN IF B = <<>> THEN IndexError ELSE Flag(GenderText(Iloc(B, 0).emp))
  ELSE NoFlag

\* lines 58-64
GenderBias(cur, B, C) ==
  IF C = <<>> /\ ~In(cur.gender, Unique(GenderColumn(B)))
  THEN IF B = <<>> THEN IndexError ELSE Flag(GenderText(Iloc(B, 0).emp))
  ELSE IF /\ ~In(cur.gender, Unique(GenderColumn(B)))
          /\ \A i \in DOMAIN C : C[i].gender = cur.gender
  THEN IF B = <<>> THEN IndexError ELSE Flag(GenderText(Iloc(B, 0).emp))
  ELSE NoFlag

\* Variant of EthnicityBias: the missing-ethnicity case is tried before the
\* suppression case
EthnicityBiasNoSuppression(cur, B, C) ==
  LET bEth == Unique(EthnicityColumn(B))
      cEth == Unique(EthnicityColumn(C))
  IN IF C = <<>> /\ ~In(cur.eth, bEth)
     THEN IF B = <<>> THEN IndexError ELSE Flag(EthnicityText(Iloc(B, 0).emp))
     ELSE IF ~(\A i \in DOMAIN bEth : In(bEth[i], cEth))
     THEN LET missing_ethnicity == SelectSeq(bEth, LAMBDA x : ~In(x, cEth))
              holders == SelectSeq(B, LAMBDA r : r.eth = missing_ethnicity[1])
          IN IF holders = <<>> THEN IndexError
             ELSE Flag(MissingEthnicityText(missing_ethnicity[1], Iloc(holders, 0).emp))
     ELSE NoFlag

\* lines 67-77
EthnicityBias(cur, B, C) ==
  LET bEth == Unique(EthnicityColumn(B))
      cEth == Unique(EthnicityColumn(C))
  IN IF C = <<>> /\ ~In(cur.eth, bEth)
     THEN IF B = <<>> THEN IndexError ELSE Flag(EthnicityText(Iloc(B, 0).emp))
     ELSE IF In(cur.eth, bEth) THEN NoFlag
     ELSE IF ~(\A i \in DOMAIN bEth : In(bEth[i], cEth))
     THEN LET missing_ethnicity == SelectSeq(bEth, LAMBDA x : ~In(x, cEth))
              holders == SelectSeq(B, LAMBDA r : r.eth = missing_ethnicity[1])
          IN IF holders = <<>> THEN IndexError
             ELSE Flag(MissingEthnicityText(missing_ethnicity[1], Iloc(holders, 0).emp))
     ELSE NoFlag

\* " | ".join(findings)
RECURSIVE Join(_)
Join(findings) ==
  IF findings = <<>> THEN ""
  ELSE IF Len(findings) = 1 THEN findings[1]
  ELSE findings[1] \o " | " \o Join(Tail(findings))

\* lines 80-84
Findings(gb, eb) ==
  (IF gb.flag THEN <<gb.reason>> ELSE <<>>) \o (IF eb.flag THEN <<eb.reason>> ELSE <<>>)

\* Variant of WriteAt: the finding goes to the first row of the frame
WriteAtTop(frame, label, text) ==
  [i \in 1..Len(frame) |-> IF i = 1 THEN [frame[i] EXCEPT !.pe = text] ELSE frame[i]]

\* line 87: group_data.at[label, "Pay Equity"] = text
WriteAt(frame, label, text) ==
  [i \in 1..Len(frame) |->
     IF frame[i].index = label THEN [frame[i] EXCEPT !.pe = text] ELSE frame[i]]

(* ------------------------------ actions ------------------------------- *)
\* lines 24-30: coerce the compensation column, blank the result column,
\* group by (Job Code, Department Code)
Prepare ==
  /\ pc = "start"
  /\ LET coerced == [i \in 1..Len(df) |->
                       [index |-> df[i].index, emp |-> df[i].emp, job |-> df[i].job,
                        dept |-> df[i].dept, comp |-> ToNumeric(df[i].comp),
                        gender |-> df[i].gender, eth |-> df[i].eth, pe |-> ""]]
     IN /\ df' = coerced
        /\ grouped' = GroupBy(coerced)
  /\ pc' = "groups"
  /\ UNCHANGED <<threshold, group_data, n, results, final_df>>

\* lines 34-42: a group of fewer than two rows is sorted and appended as is
SkipSingle ==
  /\ pc = "groups"
  /\ grouped # <<>>
  /\ Len(Head(grouped)) < 2
  /\ \E s \in SortValues(Head(grouped)) :
        results' = Append(results,
                          [i \in 1..Len(s) |-> [ResetIndex(s)[i] EXCEPT !.pe = ""]])
  /\ grouped' = Tail(grouped)
  /\ UNCHANGED <<df, threshold, pc, group_data, n, final_df>>

\* lines 34-36, 45: rank the group and start the loop at its last row
StartGroup ==
  /\ pc = "groups"
  /\ grouped # <<>>
  /\ Len(Head(grouped)) >= 2
  /\ \E s \in SortValues(Head(grouped)) : group_data' = ResetIndex(s)
  /\ n' = Len(Head(grouped)) - 1
  /\ grouped' = Tail(grouped)
  /\ pc' = "loop"
  /\ UNCHANGED <<df, threshold, results, final_df>>

\* lines 46-87: one iteration of the loop over the subjects
Evaluate ==
  /\ pc = "loop"
  /\ n >= 0
  /\ LET current_employee == Iloc(group_data, n)
         set_B == SetB(group_data, current_employee, threshold)
         set_C == SetC(group_data, current_employee, threshold)
         gb == GenderBias(current_employee, set_B, set_C)
         eb == EthnicityBias(current_employee, set_B, set_C)
         findings == Findings(gb, eb)
     IN IF WithinThreshold(group_data, current_employee, threshold)
        THEN /\ n' = n - 1
             /\ UNCHANGED <<pc, group_data>>
        ELSE IF gb.raise \/ eb.raise
        THEN /\ pc' = "raised"
             /\ UNCHANGED <<n, group_data>>
        ELSE /\ group_data' = IF findings # <<>>
                              THEN WriteAt(group_data, n, Join(findings))
                              ELSE group_data
             /\ n' = n - 1
             /\ pc' = pc
  /\ UNCHANGED <<df, threshold, grouped, results, final_df>>

\* line 89
AppendGroup ==
  /\ pc = "loop"
  /\ n < 0
  /\ results' = Append(results, group_data)
  /\ group_data' = <<>>
  /\ pc' = "groups"
  /\ UNCHANGED <<df, threshold, grouped, n, final_df>>

\* lines 92-93: pd.concat raises on an empty list of frames
Combine ==
  /\ pc = "groups"
  /\ grouped = <<>>
  /\ IF results = <<>>
     THEN pc' = "raised" /\ UNCHANGED final_df
     ELSE /\ \E f \in SortIndex(Concat(results)) : final_df' = f
          /\ pc' = "done"
  /\ UNCHANGED <<df, threshold, grouped, group_data, n, results>>

Next == Prepare \/ SkipSingle \/ StartGroup \/ Evaluate \/ AppendGroup \/ Combine

Spec == Init /\ [][Next]_vars

(* ----------------------- vocabulary of the claims --------------------- *)
\* Position of an employee in the input roster
InputPos(e) == CHOOSE i \in DOMAIN df : df[i].emp = e

\* The input rows of the cohort of `row'
CohortOf(row) == {r \in Range(df) : r.job = row.job /\ r.dept = row.dept}

\* gapToTop > threshold, from the cohort's highest compensation
GapExceeds(row) ==
  /\ row.comp.num
  /\ \E r \in CohortOf(row) : r.comp.num /\ r.comp.val - row.comp.val > threshold

\* Every frame that stores findings
Frames == Range(results) \cup {group_data} \cup {final_df}

\* <<frame, k>> for every subject the loop has already evaluated
Evaluated ==
  {<<f, k>> : f \in {g \in Range(results) : Len(g) >= 2}, k \in 1..MaxRows + 1}
  \cup (IF pc \in {"loop", "raised"}
        THEN {<<group_data, k>> : k \in n + 2..MaxRows + 1} ELSE {})

EvaluatedSubjects == {s \in Evaluated : s[2] \in DOMAIN s[1]}

\* Above and Peers of the subject at position k of a ranked cohort, as sets
\* of positions
Above(f, k, t) == {i \in DOMAIN f : f[i].comp.num /\ f[k].comp.num
                                     /\ f[i].comp.val > f[k].comp.val + t}
Peers(f, k, t) == {i \in DOMAIN f : f[i].comp.num /\ f[k].comp.num
                                     /\ f[i].comp.val <= f[k].comp.val + t}
FirstOf(S) == CHOOSE i \in S : \A j \in S : i <= j

RankedGapExceeds(f, k, t) ==
  f[1].comp.num /\ f[k].comp.num /\ f[1].comp.val - f[k].comp.val > t

EmployeeNumbers == {EmployeeNumber(i) : i \in 1..MaxRows + 1}

EthnicityFindings ==
  {MissingEthnicityText(x, e) : x \in Ethnicities, e \in EmployeeNumbers}
  \cup {EthnicityText(e) : e \in EmployeeNumbers}

\* The stored string starts with the gender finding that cites employee e
HasGenderFinding(text, e) ==
  \/ text = GenderText(e)
  \/ \E x \in EthnicityFindings : text = GenderText(e) \o " | " \o x

HasAnyGenderFinding(text) == \E e \in EmployeeNumbers : HasGenderFinding(text, e)

\* The stored string ends with the ethnicity finding x, after the gender
\* finding if there is one
HasEthnicityFinding(text, x) ==
  \/ text = x
  \/ \E e \in EmployeeNumbers : text = GenderText(e) \o " | " \o x

HasAnyEthnicityFinding(text) == \E x \in EthnicityFindings : HasEthnicityFinding(text, x)

\* What one pass of the loop body stores for position k at threshold t,
\* given that it does not raise
StoredAt(f, k, t) ==
  LET cur == f[k]
      B == SetB(f, cur, t)
      C == SetC(f, cur, t)
  IN IF WithinThreshold(f, cur, t) THEN ""
     ELSE Join(Findings(GenderBias(cur, B, C), EthnicityBias(cur, B, C)))

Blank(f) == [i \in DOMAIN f |-> [f[i] EXCEPT !.pe = ""]]

(* ------------------------------- claims ------------------------------- *)
\* C1: the record at output position i is the record that was at input
\* position i.
OutputInInputOrder ==
  pc = "done" =>
    /\ Len(final_df) = Len(df)
    /\ \A i \in DOMAIN df : final_df[i].emp = df[i].emp

\* C2 (as stated): every record that has a finding at the threshold of the
\* run has that same finding at every smaller non-negative threshold.
ThresholdMonotone ==
  pc = "done" =>
    \A f \in Range(results) : \A k \in DOMAIN f : \A t1 \in 0..threshold - 1 :
      (Len(f) >= 2 /\ f[k].pe # "") => StoredAt(f, k, t1) = f[k].pe

\* No cohort member is paid more than subject + t1 and at most subject + t2
NoneBetween(f, k, t1, t2) ==
  ~\E i \in DOMAIN f : /\ f[i].comp.num /\ f[k].comp.num
                       /\ f[i].comp.val > f[k].comp.val + t1
                       /\ f[i].comp.val <= f[k].comp.val + t2

\* C2 (amended): a record that has a finding at t2 has a gap to the top
\* above every smaller threshold t1, and has the same finding at t1 when no
\* cohort member is paid within (subject + t1, subject + t2].
ThresholdMonotoneSameSets ==
  pc = "done" =>
    \A f \in Range(results) : \A k \in DOMAIN f : \A t1 \in 0..threshold - 1 :
      (Len(f) >= 2 /\ f[k].pe # "") =>
         /\ RankedGapExceeds(f, k, t1)
         /\ NoneBetween(f, k, t1, threshold) => StoredAt(f, k, t1) = f[k].pe

ThresholdMonotoneWitness ==
  /\ pc = "done"
  /\ threshold > 0
  /\ \E f \in Range(results) : \E k \in DOMAIN f :
       /\ Len(f) >= 2 /\ f[k].pe # ""
       /\ NoneBetween(f, k, 0, threshold)
       /\ \E i \in DOMAIN f : i # k /\ f[i].comp = f[k].comp

\* C3: a record whose compensation is missing never aborts the batch.
MissingCompensationNeverAborts ==
  pc = "raised" => \A i \in DOMAIN group_data : group_data[i].comp.num

\* C4: the output has as many records as the input and every input
\* employeeNumber appears exactly once.
OutputTotal ==
  pc = "done" =>
    /\ Len(final_df) = Len(df)
    /\ \A i \in DOMAIN df :
         Cardinality({j \in DOMAIN final_df : final_df[j].emp = df[i].emp}) = 1

OutputTotalWitness ==
  /\ pc = "done"
  /\ Len(df) = MaxRows
  /\ \E r \in Range(df) : r.dept = NULL /\ Cardinality(CohortOf(r)) = 1
  /\ \E r \in Range(final_df) : r.dept = NULL

\* C5: whenever Above/Peers are built for a subject, Peers contains the
\* subject.
PeersContainSubject ==
  (pc = "loop" /\ n >= 0
     /\ ~WithinThreshold(group_data, Iloc(group_data, n), threshold)) =>
    Iloc(group_data, n) \in Range(SetC(group_data, Iloc(group_data, n), threshold))

\* C6: a record whose gap to its cohort's top earner does not exceed the
\* threshold has empty findings.
WithinThresholdNeverFlagged ==
  \A f \in Frames : \A k \in DOMAIN f : ~GapExceeds(f[k]) => f[k].pe = ""

WithinThresholdWitness ==
  /\ pc = "done"
  /\ \E r \in Range(final_df) :
       /\ r.pe = "" /\ r.comp.num
       /\ \E top \in CohortOf(r) :
             /\ top.emp # r.emp /\ top.gender # r.gender /\ top.comp.num
             /\ top.comp.val - r.comp.val = threshold
       /\ \E s \in Range(final_df) : s.job = r.job /\ s.dept = r.dept /\ s.pe # ""

\* C7: in a ranked cohort, members with equal compensation keep their
\* relative input order.
StableTieBreak ==
  pc = "loop" =>
    \A i, j \in DOMAIN group_data :
      (i < j /\ group_data[i].comp = group_data[j].comp) =>
         InputPos(group_data[i].emp) < InputPos(group_data[j].emp)

\* C8: for every evaluated subject whose gapToTop exceeds the threshold, a
\* gender finding is stored iff the subject's gender is absent from Above
\* and every member of Peers (if any) has the subject's gender; it cites
\* the first member of Above in rank order.
GenderRule ==
  \A s \in EvaluatedSubjects :
    LET f == s[1]
        k == s[2]
        A == Above(f, k, threshold)
        P == Peers(f, k, threshold)
        due == /\ \A i \in A : f[i].gender # f[k].gender
               /\ (P = {} \/ \A i \in P : f[i].gender = f[k].gender)
    IN RankedGapExceeds(f, k, threshold) =>
         /\ HasAnyGenderFinding(f[k].pe) <=> due
         /\ due => HasGenderFinding(f[k].pe, f[FirstOf(A)].emp)

GenderRuleWitness ==
  /\ pc = "done"
  /\ \E f \in Range(results) : \E k \in DOMAIN f :
       /\ HasAnyGenderFinding(f[k].pe)
       /\ Cardinality(Above(f, k, threshold)) >= 2
       /\ \E i \in Above(f, k, threshold) :
             InputPos(f[i].emp) < InputPos(f[FirstOf(Above(f, k, threshold))].emp)

EvaluatedOnceFromRankedCohort ==
  /\ pc = "loop" =>
       \A k \in DOMAIN group_data :
         group_data[k].pe = IF k - 1 <= n THEN ""
                            ELSE StoredAt(Blank(group_data), k, threshold)
  /\ \A f \in Range(results) : \A k \in DOMAIN f :
       f[k].pe = IF Len(f) < 2 THEN "" ELSE StoredAt(Blank(f), k, threshold)

EvaluatedOnceWitness ==
  /\ pc = "loop"
  /\ n = 0
  /\ Cardinality({k \in DOMAIN group_data : group_data[k].pe # ""}) >= 2

====
